---- MODULE Spec2Model ----
(***************************************************************************)
(* Model of paperbox.py: generate_paper_box, the routine that validates    *)
(* the three box dimensions against the page and issues the canvas calls   *)
(* (rect, setDash, save) that draw the unfolded net of the box.            *)
(*                                                                         *)
(* Arithmetic.  The code computes in floating-point centimetres.  The      *)
(* model computes exactly, in integer ticks, Tick ticks to the centimetre. *)
(* Tick is a multiple of 2 * 8001 so that the two divisions of the code    *)
(* (page size / 28.35 and W_WIDE_MAX / 2) are exact on every value the     *)
(* model reaches.  Canvas coordinates are the code's coordinates divided   *)
(* by reportlab's cm (72 / 2.54 points): the code multiplies every         *)
(* coordinate it hands to the canvas by cm, and the page A4 is 21 cm by    *)
(* 29.7 cm, so a coordinate of the model is compared with the page in      *)
(* ticks.  The page lengths the code checks against are A4 / 28.35, and    *)
(* cm / 28.35 = 8000 / 8001, which PointsToCm keeps.                       *)
(***************************************************************************)
EXTENDS Integers, Sequences, FiniteSets

\* largest dimension tried, in centimetres
MaxDim == 10

\* ticks per centimetre
Tick == 2 * 8001 * 20

\* reportlab.lib.pagesizes.A4: 210 mm by 297 mm
A4 == <<21 * Tick, (297 * Tick) \div 10>>

\* x / 28.35 for x a length in points: cm / 28.35 = 8000 / 8001
PointsToCm(x) == (x \div 8001) * 8000

\* the module-level flag of line 53
make_long_mid_faces == TRUE

\* arguments tried
Dims == {k * Tick : k \in (0 - 1)..MaxDim}
Gaps == {0, (3 * Tick) \div 40}
CutGaps == {Tick \div 4, Tick \div 2}
Offsets == {Tick \div 2, Tick}

\* dash modes of the canvas: setDash([]) is the solid line
Solid == <<>>
Dash41 == <<4, 1>>
Dash12 == <<1, 2>>

\* messages of the two assertion kinds
DimError == "Dimmesion/s can not be zero."
LengthError == "Too big length or height."
WidthError == "Too big width or height."

VARIABLES
    pc,            \* position in generate_paper_box
    args,          \* the triple the function was called with
    l, w, h,       \* the locals l, w, h
    gap, cut_gap, x_offset, y_offset,   \* keyword arguments
    ALLOW_WARPING, \* module-level flag
    GAPPING,       \* local of line 97
    L_PAGE, W_PAGE, L_MAX, W_MAX,       \* locals of the checks
    w_mid,         \* local of line 132 / 138
    x0, y0,        \* drawing cursor
    c,             \* the canvas: created, dash mode, rectangles drawn, saves
    warnings,      \* logging.warning calls made
    err            \* message of the failed assertion, "" if none

vars == <<pc, args, l, w, h, gap, cut_gap, x_offset, y_offset, ALLOW_WARPING,
          GAPPING, L_PAGE, W_PAGE, L_MAX, W_MAX, w_mid, x0, y0, c, warnings, err>>

params == <<args, gap, cut_gap, x_offset, y_offset, ALLOW_WARPING>>

\* ----- pure helpers ------------------------------------------------------

Max3(a, b, d) == IF a >= b /\ a >= d THEN a ELSE IF b >= d THEN b ELSE d
Min3(a, b, d) == IF a <= b /\ a <= d THEN a ELSE IF b <= d THEN b ELSE d

\* sorted([l, w, h], reverse=True)
sorted_reverse(s) ==
    LET hi == Max3(s[1], s[2], s[3])
        lo == Min3(s[1], s[2], s[3])
    IN  <<hi, s[1] + s[2] + s[3] - hi - lo, lo>>

\* canvas.Canvas before construction
NoCanvas == [created |-> FALSE, dash |-> Solid, rects |-> <<>>, saved |-> 0]

\* c.rect(x, y, width, height): strokes with the dash mode current at the call
rect(cv, x, y, width, height) ==
    [cv EXCEPT !.rects = Append(@, [x |-> x, y |-> y, width |-> width,
                                    height |-> height, dash |-> cv.dash])]

\* c.setDash(array, phase) / c.setDash([]): a persistent mode of the canvas
setDash(cv, pattern) == [cv EXCEPT !.dash = pattern]

\* c.save()
save(cv) == [cv EXCEPT !.saved = @ + 1]

\* ----- initial state -----------------------------------------------------

Init ==
    /\ pc = "reorder"
    /\ args \in Dims \X Dims \X Dims
    /\ l = args[1] /\ w = args[2] /\ h = args[3]
    /\ gap \in Gaps
    /\ cut_gap \in CutGaps
    /\ x_offset \in Offsets
    /\ y_offset \in Offsets
    /\ ALLOW_WARPING \in BOOLEAN
    /\ GAPPING = FALSE
    /\ L_PAGE = 0 /\ W_PAGE = 0 /\ L_MAX = 0 /\ W_MAX = 0
    /\ w_mid = 0 /\ x0 = 0 /\ y0 = 0
    /\ c = NoCanvas
    /\ warnings = {}
    /\ err = ""

\* ----- validation --------------------------------------------------------

\* line 91
Reorder ==
    /\ pc = "reorder"
    /\ LET s == sorted_reverse(<<l, w, h>>)
       IN  l' = s[1] /\ w' = s[2] /\ h' = s[3]
    /\ pc' = "gapping"
    /\ UNCHANGED <<params, GAPPING, L_PAGE, W_PAGE, L_MAX, W_MAX, w_mid, x0, y0,
                   c, warnings, err>>

\* lines 96-102
Gapping ==
    /\ pc = "gapping"
    /\ GAPPING' = (gap > 0)
    /\ IF gap > 0
       THEN l' = l + 2 * gap /\ w' = w + 2 * gap /\ h' = h + 2 * gap
       ELSE UNCHANGED <<l, w, h>>
    /\ pc' = "check_dims"
    /\ UNCHANGED <<params, L_PAGE, W_PAGE, L_MAX, W_MAX, w_mid, x0, y0,
                   c, warnings, err>>

\* lines 104-108
CheckDims ==
    /\ pc = "check_dims"
    /\ L_PAGE' = PointsToCm(A4[2])
    /\ W_PAGE' = PointsToCm(A4[1])
    /\ IF l >= w /\ w >= h /\ h > 0
       THEN pc' = "check_length" /\ err' = err
       ELSE pc' = "failed" /\ err' = DimError
    /\ UNCHANGED <<params, l, w, h, GAPPING, L_MAX, W_MAX, w_mid, x0, y0,
                   c, warnings>>

\* CheckLength with the ALLOW_WARPING test lost: an overflow only ever warns
CheckLength_AlwaysWarn ==
    /\ pc = "check_length"
    /\ L_MAX' = l * 2 + 3 * h
    /\ warnings' = IF L_MAX' >= L_PAGE THEN warnings \cup {"length"} ELSE warnings
    /\ pc' = "check_width" /\ err' = err
    /\ UNCHANGED <<params, l, w, h, GAPPING, L_PAGE, W_PAGE, W_MAX, w_mid,
                   x0, y0, c>>

\* lines 109-119
CheckLength ==
    /\ pc = "check_length"
    /\ L_MAX' = l * 2 + 3 * h
    /\ IF ALLOW_WARPING
       THEN /\ warnings' = IF L_MAX' >= L_PAGE THEN warnings \cup {"length"}
                                               ELSE warnings
            /\ pc' = "check_width" /\ err' = err
       ELSE /\ warnings' = warnings
            /\ IF L_MAX' < L_PAGE
               THEN pc' = "check_width" /\ err' = err
               ELSE pc' = "failed" /\ err' = LengthError
    /\ UNCHANGED <<params, l, w, h, GAPPING, L_PAGE, W_PAGE, W_MAX, w_mid,
                   x0, y0, c>>

\* CheckWidth with the assertion of line 123 not enforced
CheckWidth_NoAssert ==
    /\ pc = "check_width"
    /\ W_MAX' = w + 2 * h
    /\ pc' = "mid_squares" /\ err' = err
    /\ UNCHANGED <<params, l, w, h, GAPPING, L_PAGE, W_PAGE, L_MAX, w_mid,
                   x0, y0, c, warnings>>

\* lines 121-125
CheckWidth ==
    /\ pc = "check_width"
    /\ W_MAX' = w + 2 * h
    /\ IF W_MAX' <= W_PAGE
       THEN pc' = "mid_squares" /\ err' = err
       ELSE pc' = "failed" /\ err' = WidthError
    /\ UNCHANGED <<params, l, w, h, GAPPING, L_PAGE, W_PAGE, L_MAX, w_mid,
                   x0, y0, c, warnings>>

\* MidSquares with the else branch of line 137 lost: w_mid is always the bound
MidSquares_AlwaysClamp ==
    /\ pc = "mid_squares"
    /\ make_long_mid_faces
    /\ LET W_WIDE_MAX == W_PAGE - w - x_offset * 2
           half == W_WIDE_MAX \div 2
       IN  /\ w_mid' = half
           /\ warnings' = IF l > half THEN warnings \cup {"mid"} ELSE warnings
    /\ pc' = "canvas"
    /\ UNCHANGED <<params, l, w, h, GAPPING, L_PAGE, W_PAGE, L_MAX, W_MAX,
                   x0, y0, c, err>>

\* lines 127-138
MidSquares ==
    /\ pc = "mid_squares"
    /\ make_long_mid_faces
    /\ LET W_WIDE_MAX == W_PAGE - w - x_offset * 2
           half == W_WIDE_MAX \div 2
       IN  IF l > half
           THEN w_mid' = half /\ warnings' = warnings \cup {"mid"}
           ELSE w_mid' = l /\ warnings' = warnings
    /\ pc' = "canvas"
    /\ UNCHANGED <<params, l, w, h, GAPPING, L_PAGE, W_PAGE, L_MAX, W_MAX,
                   x0, y0, c, err>>

\* ----- drawing -----------------------------------------------------------

\* lines 140-143
OpenCanvas ==
    /\ pc = "canvas"
    /\ c' = [NoCanvas EXCEPT !.created = TRUE]
    /\ pc' = "main_faces"
    /\ UNCHANGED <<params, l, w, h, GAPPING, L_PAGE, W_PAGE, L_MAX, W_MAX,
                   w_mid, x0, y0, warnings, err>>

\* lines 145-157
MainFaces ==
    /\ pc = "main_faces"
    /\ LET xa == x_offset + w_mid
           ya == y_offset
           c1 == rect(c, xa, ya, w, h)
           yb == ya + h
           c2 == rect(c1, xa, yb, w, l)
           yc == yb + l
           c3 == rect(c2, xa, yc, w, h)
           yd == yc + h
           c4 == rect(c3, xa, yd, w, l)
           ye == yd + l
       IN  c' = c4 /\ x0' = xa /\ y0' = ye
    /\ pc' = "cover"
    /\ UNCHANGED <<params, l, w, h, GAPPING, L_PAGE, W_PAGE, L_MAX, W_MAX,
                   w_mid, warnings, err>>

\* lines 159-162
Cover ==
    /\ pc = "cover"
    /\ LET c1 == setDash(c, Dash41)
           c2 == rect(c1, x0 + cut_gap, y0, w - 2 * cut_gap, h - cut_gap)
           c3 == setDash(c2, Solid)
       IN  c' = c3
    /\ pc' = "side_left"
    /\ UNCHANGED <<params, l, w, h, GAPPING, L_PAGE, W_PAGE, L_MAX, W_MAX,
                   w_mid, x0, y0, warnings, err>>

\* SideLeft without the inset tab of lines 169-176
SideLeft_NoTab ==
    /\ pc = "side_left"
    /\ LET xa == x_offset + w_mid - h
           ya == y_offset
           c4 == rect(c, xa, ya + h, h, l)
       IN  c' = c4 /\ x0' = xa /\ y0' = ya
    /\ pc' = "side_right"
    /\ UNCHANGED <<params, l, w, h, GAPPING, L_PAGE, W_PAGE, L_MAX, W_MAX,
                   w_mid, warnings, err>>

\* lines 164-179
SideLeft ==
    /\ pc = "side_left"
    /\ LET xa == x_offset + w_mid - h
           ya == y_offset
           c1 == setDash(c, Dash12)
           c2 == rect(c1, xa + cut_gap, ya + cut_gap, h - 2 * cut_gap, h - cut_gap)
           c3 == setDash(c2, Solid)
           c4 == rect(c3, xa, ya + h, h, l)
       IN  c' = c4 /\ x0' = xa /\ y0' = ya
    /\ pc' = "side_right"
    /\ UNCHANGED <<params, l, w, h, GAPPING, L_PAGE, W_PAGE, L_MAX, W_MAX,
                   w_mid, warnings, err>>

\* SideRight with the setDash([]) of line 190 lost
SideRight_NoReset ==
    /\ pc = "side_right"
    /\ LET xa == x0 + (w + h)
           c1 == setDash(c, Dash12)
           c2 == rect(c1, xa + cut_gap, y0 + cut_gap, h - 2 * cut_gap, h - cut_gap)
           c4 == rect(c2, xa, y0 + h, h, l)
       IN  c' = c4 /\ x0' = xa
    /\ pc' = "up_sides"
    /\ UNCHANGED <<params, l, w, h, GAPPING, L_PAGE, W_PAGE, L_MAX, W_MAX,
                   w_mid, y0, warnings, err>>

\* lines 181-193
SideRight ==
    /\ pc = "side_right"
    /\ LET xa == x0 + (w + h)
           c1 == setDash(c, Dash12)
           c2 == rect(c1, xa + cut_gap, y0 + cut_gap, h - 2 * cut_gap, h - cut_gap)
           c3 == setDash(c2, Solid)
           c4 == rect(c3, xa, y0 + h, h, l)
       IN  c' = c4 /\ x0' = xa
    /\ pc' = "up_sides"
    /\ UNCHANGED <<params, l, w, h, GAPPING, L_PAGE, W_PAGE, L_MAX, W_MAX,
                   w_mid, y0, warnings, err>>

\* lines 195-207
UpSides ==
    /\ pc = "up_sides"
    /\ LET ya == y0 + (l + h * 2)
           c1 == setDash(c, Dash41)
           c2 == rect(c1, x0, ya + cut_gap, h - cut_gap, l - 2 * cut_gap)
           xa == x0 - (w + h)
           c3 == rect(c2, xa + cut_gap, ya + cut_gap, h - cut_gap, l - 2 * cut_gap)
           c4 == setDash(c3, Solid)
       IN  c' = c4 /\ x0' = xa /\ y0' = ya
    /\ pc' = "mid_faces"
    /\ UNCHANGED <<params, l, w, h, GAPPING, L_PAGE, W_PAGE, L_MAX, W_MAX,
                   w_mid, warnings, err>>

\* lines 209-233
MidFaces ==
    /\ pc = "mid_faces"
    /\ LET c1 == setDash(c, Dash12)
           xa == x_offset
           ya == y_offset + h + l
           c2 == rect(c1, xa + cut_gap, ya + cut_gap, w_mid - cut_gap, h - 2 * cut_gap)
           xb == x_offset + w_mid + w
           yb == y_offset + h + l
           c3 == rect(c2, xb, yb + cut_gap, w_mid - cut_gap, h - 2 * cut_gap)
           c4 == setDash(c3, Solid)
       IN  c' = c4 /\ x0' = xb /\ y0' = yb
    /\ pc' = "gap_test"
    /\ UNCHANGED <<params, l, w, h, GAPPING, L_PAGE, W_PAGE, L_MAX, W_MAX,
                   w_mid, warnings, err>>

\* lines 235-239
SaveNoGap ==
    /\ pc = "gap_test"
    /\ ~GAPPING
    /\ c' = save(c)
    /\ pc' = "done"
    /\ UNCHANGED <<params, l, w, h, GAPPING, L_PAGE, W_PAGE, L_MAX, W_MAX,
                   w_mid, x0, y0, warnings, err>>

\* GapFaces that also repeats the closing flap as a fifth rectangle
GapFaces_WithFlap ==
    /\ pc = "gap_test"
    /\ GAPPING
    /\ LET ll == l - 2 * gap
           ww == w - 2 * gap
           hh == h - 2 * gap
           xa == x_offset + w_mid + gap
           ya == y_offset + gap
           c1 == rect(c, xa, ya, ww, hh)
           yb == ya + (hh + 2 * gap)
           c2 == rect(c1, xa, yb, ww, ll)
           yc == yb + (ll + 2 * gap)
           c3 == rect(c2, xa, yc, ww, hh)
           yd == yc + (hh + 2 * gap)
           c4 == rect(c3, xa, yd, ww, ll)
           ye == yd + (ll + 2 * gap)
           c5 == rect(c4, xa, ye, ww, hh)
       IN  /\ c' = c5 /\ x0' = xa /\ y0' = ye
           /\ l' = ll /\ w' = ww /\ h' = hh
    /\ pc' = "save"
    /\ UNCHANGED <<params, GAPPING, L_PAGE, W_PAGE, L_MAX, W_MAX,
                   w_mid, warnings, err>>

\* GapFaces that steps the cursor by the deflated height only, without the
\* 2 * gap of lines 251, 253 and 255
GapFaces_ShortStep ==
    /\ pc = "gap_test"
    /\ GAPPING
    /\ LET ll == l - 2 * gap
           ww == w - 2 * gap
           hh == h - 2 * gap
           xa == x_offset + w_mid + gap
           ya == y_offset + gap
           c1 == rect(c, xa, ya, ww, hh)
           yb == ya + hh
           c2 == rect(c1, xa, yb, ww, ll)
           yc == yb + ll
           c3 == rect(c2, xa, yc, ww, hh)
           yd == yc + hh
           c4 == rect(c3, xa, yd, ww, ll)
       IN  /\ c' = c4 /\ x0' = xa /\ y0' = yd
           /\ l' = ll /\ w' = ww /\ h' = hh
    /\ pc' = "save"
    /\ UNCHANGED <<params, GAPPING, L_PAGE, W_PAGE, L_MAX, W_MAX,
                   w_mid, warnings, err>>

\* lines 241-256
GapFaces ==
    /\ pc = "gap_test"
    /\ GAPPING
    /\ LET ll == l - 2 * gap
           ww == w - 2 * gap
           hh == h - 2 * gap
           xa == x_offset + w_mid + gap
           ya == y_offset + gap
           c1 == rect(c, xa, ya, ww, hh)
           yb == ya + (hh + 2 * gap)
           c2 == rect(c1, xa, yb, ww, ll)
           yc == yb + (ll + 2 * gap)
           c3 == rect(c2, xa, yc, ww, hh)
           yd == yc + (hh + 2 * gap)
           c4 == rect(c3, xa, yd, ww, ll)
       IN  /\ c' = c4 /\ x0' = xa /\ y0' = yd
           /\ l' = ll /\ w' = ww /\ h' = hh
    /\ pc' = "save"
    /\ UNCHANGED <<params, GAPPING, L_PAGE, W_PAGE, L_MAX, W_MAX,
                   w_mid, warnings, err>>

\* lines 258-260
SaveGap ==
    /\ pc = "save"
    /\ c' = save(c)
    /\ pc' = "done"
    /\ UNCHANGED <<params, l, w, h, GAPPING, L_PAGE, W_PAGE, L_MAX, W_MAX,
                   w_mid, x0, y0, warnings, err>>

Next ==
    \/ Reorder \/ Gapping \/ CheckDims \/ CheckLength \/ CheckWidth
    \/ MidSquares \/ OpenCanvas \/ MainFaces \/ Cover \/ SideLeft
    \/ SideRight \/ UpSides \/ MidFaces \/ SaveNoGap \/ GapFaces \/ SaveGap

Spec == Init /\ [][Next]_vars

\* ----- vocabulary of the properties --------------------------------------

\* the requested dimensions, largest first
Requested == sorted_reverse(args)

\* the dimensions the checks see: inflated by 2 * gap when gap > 0
Inflated(i) == Requested[i] + (IF gap > 0 THEN 2 * gap ELSE 0)

maxLength == 2 * Inflated(1) + 3 * Inflated(3)
maxWidth == Inflated(2) + 2 * Inflated(3)
usableLength == PointsToCm(A4[2])
usableWidth == PointsToCm(A4[1])

\* the three checks of lines 108-125, as the code evaluates them
PassesDimensions == Inflated(3) > 0
PassesLength == ALLOW_WARPING \/ maxLength < usableLength
PassesWidth == maxWidth <= usableWidth
PassesValidation == PassesDimensions /\ PassesLength /\ PassesWidth

Terminated == pc \in {"done", "failed"}
Validating == pc \in {"reorder", "gapping", "check_dims", "check_length", "check_width"}
NoDocument == ~c.created /\ c.rects = <<>> /\ c.saved = 0

\* line styles of the outer pass, in drawing order
OuterStyles == <<Solid, Solid, Solid, Solid, Dash41,
                 Dash12, Solid, Dash12, Solid,
                 Dash41, Dash41, Dash12, Dash12>>
OuterCount == Len(OuterStyles)
NetSize == IF gap > 0 THEN OuterCount + 4 ELSE OuterCount

\* ----- properties ---------------------------------------------------------

\* C1: whenever one of the three arguments is <= 0, whatever the gap, the run
\* fails with the invalid-dimension error and no canvas is created.
C1_InvalidDimension ==
    ((\E i \in 1..3 : args[i] <= 0) /\ pc \notin {"reorder", "gapping", "check_dims"})
        => (pc = "failed" /\ err = DimError /\ NoDocument)

\* C2: on dimensions that pass the positivity check, a width overflow always
\* fails with DimensionsExceedPage and no document; a length overflow fails
\* the same way when ALLOW_WARPING is off; with ALLOW_WARPING on (width
\* fitting) it records a warning, succeeds, and the net has the size every
\* finished run with that gap setting has.
C2_PageFit ==
    (Terminated /\ PassesDimensions) =>
        /\ (maxWidth > usableWidth \/ (~ALLOW_WARPING /\ maxLength >= usableLength))
              => (pc = "failed" /\ err \in {LengthError, WidthError} /\ NoDocument)
        /\ (ALLOW_WARPING /\ maxLength >= usableLength /\ maxWidth <= usableWidth)
              => (pc = "done" /\ "length" \in warnings /\ c.saved = 1)
        /\ pc = "done" => Len(c.rects) = NetSize

C2_Witness ==
    pc = "done" /\ ALLOW_WARPING /\ maxLength >= usableLength /\ "length" \in warnings

\* C3: the canvas exists and rectangles are drawn only after all three checks
\* passed; a finished run saved exactly once, after its last rectangle, with
\* or without the gap pass; a failed run has no canvas, no rectangle, no save.
C3_ValidateThenDraw ==
    /\ [](/\ (c.created \/ c.rects # <<>> \/ c.saved > 0)
                => (PassesValidation /\ ~Validating /\ pc # "failed")
          /\ pc = "done" => (c.saved = 1 /\ Len(c.rects) = NetSize)
          /\ pc # "done" => c.saved = 0
          /\ pc = "failed" => NoDocument)
    /\ [][c.saved > 0 => c' = c]_vars

C3_Witness == pc = "done" /\ GAPPING /\ c.saved = 1 /\ c.created

\* C4: once the mid faces are sized, if the (inflated) length exceeds
\* (usableWidth - w - 2 * x_offset) / 2 then w_mid is exactly that bound and
\* the mid-face warning was recorded; otherwise w_mid is the length and no
\* mid-face warning was recorded.
C4_MidFaceClamp ==
    (~Validating /\ pc \notin {"mid_squares", "failed"}) =>
        LET room == usableWidth - Inflated(2) - 2 * x_offset
        IN  IF 2 * Inflated(1) > room
            THEN 2 * w_mid = room /\ "mid" \in warnings
            ELSE w_mid = Inflated(1) /\ "mid" \notin warnings

C4_Witness ==
    /\ pc = "done" /\ "mid" \in warnings
    /\ 2 * Inflated(1) > usableWidth - Inflated(2) - 2 * x_offset

\* C5 as stated: a finished run with gap = 0 has drawn exactly 9 rectangles,
\* all of them solid.
C5_NineSolid ==
    (pc = "done" /\ gap = 0)
        => (Len(c.rects) = 9 /\ \A i \in DOMAIN c.rects : c.rects[i].dash = Solid)

\* C5 amended: with gap = 0 every input that passes validation finishes, and
\* the net is 13 rectangles: four solid main faces, the closing flap dashed
\* (4, 1), per side a tab dashed (1, 2) and a solid side face, two upper
\* flaps dashed (4, 1), two mid faces dashed (1, 2).
C5_ThirteenRects ==
    gap = 0 =>
        /\ (Terminated /\ PassesValidation) => pc = "done"
        /\ pc = "done" =>
              /\ Len(c.rects) = 13
              /\ \A i \in 1..13 : c.rects[i].dash = OuterStyles[i]
              /\ Cardinality({i \in 1..13 : c.rects[i].dash = Solid}) = 6

C5_Witness ==
    pc = "done" /\ gap = 0 /\ Requested = <<10 * Tick, 8 * Tick, 4 * Tick>>

C7_GapRoundTrip ==
    (pc \in {"save", "done"} /\ gap > 0) =>
        \A i \in 1..(Len(c.rects) - OuterCount) :
            LET inner == c.rects[OuterCount + i]
                outer == c.rects[i]
            IN  /\ inner.width = Requested[2]
                /\ inner.height = (IF i % 2 = 1 THEN Requested[3] ELSE Requested[1])
                /\ inner.dash = Solid
                /\ inner.x = outer.x + gap
                /\ inner.y = outer.y + gap
                /\ inner.x + inner.width = outer.x + outer.width - gap
                /\ inner.y + inner.height = outer.y + outer.height - gap

C7_Witness == pc = "save" /\ gap > 0 /\ Len(c.rects) > OuterCount

\* C8: on a run that passed validation without a length overflow, every
\* rectangle drawn lies within the page.
C8_WithinPage ==
    (PassesValidation /\ maxLength < usableLength) =>
        \A i \in DOMAIN c.rects :
            /\ 0 <= c.rects[i].x /\ c.rects[i].x + c.rects[i].width <= A4[1]
            /\ 0 <= c.rects[i].y /\ c.rects[i].y + c.rects[i].height <= A4[2]

\* C9: the dash mode is solid whenever a drawing group has ended and when the
\* document is saved; every rectangle was stroked in the style of its own
\* group: solid for the first four main faces, the side faces and the gap
\* pass, the group's own pattern for the dashed ones.
C9_DashReset ==
    /\ c.dash = Solid
    /\ \A i \in DOMAIN c.rects :
          c.rects[i].dash = (IF i <= OuterCount THEN OuterStyles[i] ELSE Solid)

C9_Witness ==
    /\ pc = "done"
    /\ \E i, j \in DOMAIN c.rects :
          i < j /\ c.rects[i].dash = Dash41 /\ c.rects[j].dash = Solid

\* C10: on a run that passed validation (on positive requested dimensions),
\* every rectangle handed to the canvas has strictly positive width and height.
C10_PositiveSizes ==
    (PassesValidation /\ Requested[3] > 0) =>
        \A i \in DOMAIN c.rects : c.rects[i].width > 0 /\ c.rects[i].height > 0

====
